---- MODULE Spec2Model ----
(***************************************************************************)
(* A model of internal/pkg/buildcfg/confgen/gen.go: the generator (main,   *)
(* parseLine, Define.WriteLine) and the runtime its template emits         *)
(* (getPrefix, isSuidInstall, relocatePath).  Strings are TLA+ strings;    *)
(* Len, SubSeq, Head, Tail and \o act on them character by character.      *)
(***************************************************************************)
EXTENDS Integers, Sequences, FiniteSets, TLC

VARIABLES
    \* ---- the generator process (main) ----
    gpc,          \* position of main: create, read, scan, tags, render, exit
    created,      \* os.Create("config.go") succeeded
    inFile,       \* the lines os.ReadFile returned
    lineNo,       \* number of lines the scanner has consumed
    header,       \* []Define collected so far
    prefix,       \* main's local prefix (the raw PREFIX token)
    env,          \* the GO_BUILD_TAGS environment variable as Getenv saw it
    outFile,      \* the chunks of text written to config.go by this run
    baked,        \* data.Prefix, the prefix baked into the rendered runtime
    genExit,      \* running, return, fatal, panic
    genErr,       \* the error condition main hit: none, create, read, render,
                  \* prefix-count, prefix-missing, slice
    prevRun,      \* what an earlier run of main read and left behind, if any
    \* ---- one application of Define.WriteLine ----
    wd,           \* the Define it is applied to
    wline,        \* its result ("" before the call)
    \* ---- one application of the prefix discovery of getPrefix ----
    dexe,         \* the answer of os.Executable it is applied to
    dprefix,      \* <<its result>>, <<>> before the call
    \* ---- the generated runtime, one process with several threads ----
    buildPrefix,  \* the literal "{{.Prefix}}" of the generated text
    prefixOnce,   \* sync.Once: [done, m], m the thread holding its mutex
    installPrefix,
    isSuidOnce,
    suidInstall,
    stacks,       \* each thread's call stack, innermost frame last
    ncalls,       \* number of top-level calls started
    exited,       \* running, or fatal once sylog.Fatalf ended the process
    fatalBy,      \* the relocatePath call that ended the process
    exeProbes,    \* number of os.Executable calls made
    exeErr,       \* the err of the os.Executable call made last: nil, err, or
                  \* none before any call
    statLog,      \* the os.Stat calls made, in order: [path, err]
    raced,        \* the once-guards whose function ran while another thread
                  \* was waiting in Do for it
    prefixRet,    \* the values getPrefix has returned, in order
    suidRet,      \* the values isSuidInstall has returned, in order
    relocRet      \* [orig, result] of the relocatePath call that returned last

genVars == <<gpc, created, inFile, lineNo, header, prefix, env, outFile, baked,
             genExit, genErr, prevRun>>
fnVars == <<wd, wline, dexe, dprefix>>
rtVars == <<buildPrefix, prefixOnce, installPrefix, isSuidOnce, suidInstall,
            stacks, ncalls, exited, fatalBy, exeProbes, exeErr, statLog,
            raced, prefixRet, suidRet, relocRet>>
vars == <<genVars, fnVars, rtVars>>

----------------------------------------------------------------------------
(* strings package                                                         *)

\* unicode.IsSpace on the characters the inputs use
IsSpace(c) == c \in {" ", "\t", "\r"}

RECURSIVE FieldEnd(_, _)
\* the index after the run of non-space characters of s that starts at i
FieldEnd(s, i) ==
    IF i > Len(s) \/ IsSpace(SubSeq(s, i, i)) THEN i ELSE FieldEnd(s, i + 1)

RECURSIVE FieldsFrom(_, _)
\* the fields of s[i:]
FieldsFrom(s, i) ==
    IF i > Len(s) THEN <<>>
    ELSE IF IsSpace(SubSeq(s, i, i)) THEN FieldsFrom(s, i + 1)
         ELSE LET j == FieldEnd(s, i)
              IN  <<SubSeq(s, i, j - 1)>> \o FieldsFrom(s, j)

\* strings.Fields: the maximal runs of non-space characters, in order
Fields(s) == FieldsFrom(s, 1)

\* strings.HasPrefix
HasPrefix(s, p) == Len(s) >= Len(p) /\ SubSeq(s, 1, Len(p)) = p

ContainsAtStart(s, sub) == HasPrefix(s, sub)

\* strings.Contains
Contains(s, sub) ==
    \E i \in 1..(Len(s) - Len(sub) + 1) : SubSeq(s, i, i + Len(sub) - 1) = sub

----------------------------------------------------------------------------
(* path/filepath package, on slash-separated paths                         *)

RECURSIVE SplitAcc(_, _, _)
SplitAcc(s, cur, acc) ==
    IF s = "" THEN Append(acc, cur)
    ELSE IF Head(s) = "/" THEN SplitAcc(Tail(s), "", Append(acc, cur))
         ELSE SplitAcc(Tail(s), cur \o Head(s), acc)

\* strings.Split(path, "/")
SplitSlash(path) == SplitAcc(path, "", <<>>)

IsRooted(path) == path # "" /\ Head(path) = "/"

RECURSIVE CleanAcc(_, _, _, _)
\* the element loop of filepath.Clean: "" and "." are dropped, ".." removes the
\* element before it, or is dropped at the root, or is kept
CleanAcc(elems, i, rooted, out) ==
    IF i > Len(elems) THEN out
    ELSE LET e == elems[i] IN
         IF e = "" \/ e = "." THEN CleanAcc(elems, i + 1, rooted, out)
         ELSE IF e = ".."
              THEN IF out # <<>> /\ out[Len(out)] # ".."
                   THEN CleanAcc(elems, i + 1, rooted, SubSeq(out, 1, Len(out) - 1))
                   ELSE IF rooted THEN CleanAcc(elems, i + 1, rooted, out)
                        ELSE CleanAcc(elems, i + 1, rooted, Append(out, e))
              ELSE CleanAcc(elems, i + 1, rooted, Append(out, e))

\* the elements of the cleaned path
Elements(path) == CleanAcc(SplitSlash(path), 1, IsRooted(path), <<>>)

RECURSIVE JoinSlash(_, _)
\* strings.Join(elems[i:], "/")
JoinSlash(elems, i) ==
    IF i > Len(elems) THEN ""
    ELSE IF i = Len(elems) THEN elems[i]
         ELSE elems[i] \o "/" \o JoinSlash(elems, i + 1)

\* filepath.Clean
Clean(path) ==
    LET body == JoinSlash(Elements(path), 1)
    IN  IF IsRooted(path) THEN "/" \o body
        ELSE IF body = "" THEN "." ELSE body

RECURSIVE LastSlash(_, _)
\* strings.LastIndex(path, "/") + 1, looking at path[:i]
LastSlash(path, i) ==
    IF i = 0 THEN 0
    ELSE IF SubSeq(path, i, i) = "/" THEN i ELSE LastSlash(path, i - 1)

\* filepath.Dir
Dir(path) == Clean(SubSeq(path, 1, LastSlash(path, Len(path))))

RECURSIVE StripSlashes(_)
StripSlashes(path) ==
    IF path # "" /\ SubSeq(path, Len(path), Len(path)) = "/"
    THEN StripSlashes(SubSeq(path, 1, Len(path) - 1))
    ELSE path

\* filepath.Base
Base(path) ==
    IF path = "" THEN "."
    ELSE LET p == StripSlashes(path)
             q == SubSeq(p, LastSlash(p, Len(p)) + 1, Len(p))
         IN  IF q = "" THEN "/" ELSE q

\* filepath.Join of two elements
Join(a, b) ==
    IF a = "" /\ b = "" THEN ""
    ELSE IF a = "" THEN Clean(b)
         ELSE IF b = "" THEN Clean(a) ELSE Clean(a \o "/" \o b)

RECURSIVE CommonLen(_, _, _)
\* the number of leading elements b and t share
CommonLen(b, t, k) ==
    IF k < Len(b) /\ k < Len(t) /\ b[k + 1] = t[k + 1] THEN CommonLen(b, t, k + 1) ELSE k

RECURSIVE Ups(_)
Ups(n) == IF n = 0 THEN <<>> ELSE <<"..">> \o Ups(n - 1)

\* filepath.Rel: [err, path]
Rel(basepath, targpath) ==
    LET base == Clean(basepath)
        targ == Clean(targpath)
        b == IF base = "." THEN <<>> ELSE Elements(base)
        t == IF targ = "." THEN <<>> ELSE Elements(targ)
        k == CommonLen(b, t, 0)
    IN  IF targ = base THEN [err |-> FALSE, path |-> "."]
        ELSE IF IsRooted(base) # IsRooted(targ) THEN [err |-> TRUE, path |-> ""]
        ELSE IF k < Len(b) /\ b[k + 1] = ".." THEN [err |-> TRUE, path |-> ""]
        ELSE [err |-> FALSE,
              path |-> JoinSlash(Ups(Len(b) - k) \o SubSeq(t, k + 1, Len(t)), 1)]

----------------------------------------------------------------------------
(* parseLine, Define, Define.WriteLine                                     *)

parseLine(s) == [Words |-> Fields(s)]

RelocatableNames ==
    {"BINDIR", "LIBEXECDIR", "SYSCONFDIR", "SESSIONDIR", "APPTAINER_CONFDIR",
     "PLUGIN_ROOTDIR"}

RECURSIVE JoinFrom(_, _, _)
\* the loop of WriteLine: s += " + " + w for each w of d.Words[3:]
JoinFrom(words, i, s) ==
    IF i > Len(words) THEN s ELSE JoinFrom(words, i + 1, s \o " + " \o words[i])

\* s of WriteLine: d.Words[2], then every later word after " + "
ValueExpr(d) == JoinFrom(d.Words, 4, d.Words[3])

WriteLineConfdirFirst(d) ==
    LET s == ValueExpr(d)
        name == d.Words[2]
    IN  IF Contains(s, "APPTAINER_CONFDIR")
        THEN "var " \o name \o " = " \o s
        ELSE IF name \in RelocatableNames
             THEN "var " \o name \o " = relocatePath(" \o s \o ")"
             ELSE IF name = "APPTAINER_SUID_INSTALL"
                  THEN "var " \o name \o " = isSuidInstall()"
                  ELSE "const " \o name \o " = " \o s

WriteLine(d) ==
    LET s == ValueExpr(d)
        name == d.Words[2]
        varType ==
            IF name \in RelocatableNames \/ name = "APPTAINER_SUID_INSTALL"
            THEN "var"
            ELSE IF Contains(s, "APPTAINER_CONFDIR") THEN "var" ELSE "const"
        varStatement ==
            IF name \in RelocatableNames
            THEN name \o " = relocatePath(" \o s \o ")"
            ELSE IF name = "APPTAINER_SUID_INSTALL"
                 THEN name \o " = isSuidInstall()"
                 ELSE name \o " = " \o s
    IN  varType \o " " \o varStatement

----------------------------------------------------------------------------
(* One application of Define.WriteLine to a recognized entry               *)

MaxTokens == 2

WLNames ==
    RelocatableNames \cup {"APPTAINER_SUID_INSTALL", "PREFIX", "FOO", "GO_BUILD_TAGS"}

WLTokens ==
    {"\"/usr\"", "\"/usr/local\"", "APPTAINER_CONFDIR", "1", "XAPPTAINER_CONFDIR/y"}

RECURSIVE SeqsUpTo(_, _)
\* the sequences over S of length 1..n
SeqsUpTo(S, n) ==
    IF n = 0 THEN {}
    ELSE LET shorter == SeqsUpTo(S, n - 1)
         IN  {<<x>> : x \in S} \cup shorter
             \cup {Append(q, x) : q \in shorter, x \in S}

WLDefines ==
    {[Words |-> <<"#define", n>> \o vs] : n \in WLNames, vs \in SeqsUpTo(WLTokens, MaxTokens)}

\* the prefix discovery is not applied
DiscoverIdle == dexe = [err |-> TRUE, path |-> ""] /\ dprefix = <<>>

WLInit == wd \in WLDefines /\ wline = "" /\ DiscoverIdle

WLIdle == wd = [Words |-> <<"#define", "FOO", "1">>] /\ wline = "" /\ DiscoverIdle

CallWriteLine ==
    /\ wline = ""
    /\ wline' = WriteLine(wd)
    /\ UNCHANGED <<wd, dexe, dprefix, genVars, rtVars>>

----------------------------------------------------------------------------
(* main                                                                    *)

MaxLines == 3

\* the lines an input file is made of
InputLines ==
    {"#define PREFIX \"/usr\"",
     "#define PREFIX",
     "#define PREFIX \"/usr\" \"/local\"",
     "#define PREFIX /usr",
     "#define PREFIX x",
     "#define BINDIR \"/usr/bin\"",
     " #define\tFOO  APPTAINER_CONFDIR \"/x\" ",
     "#undef PREFIX \"/usr\"",
     ""}

Inputs == {<<>>} \cup SeqsUpTo(InputLines, MaxLines)

\* GO_BUILD_TAGS in the environment: unset, set and empty, set to a value
EnvValues ==
    {[set |-> FALSE, val |-> ""], [set |-> TRUE, val |-> ""],
     [set |-> TRUE, val |-> "apparmor"]}

\* os.Getenv: the value, and "" for an unset variable
Getenv(e) == IF e.set THEN e.val ELSE ""

\* the raw-string delimiter of fmt.Sprintf("`%s`", ...); the TLA+ lexer has no
\* grave accent inside a string, so the apostrophe stands for it
BackQuote == "'"

\* the exit status of the process for each way main ends
ExitStatus(kind) ==
    CASE kind = "return" -> 0      \* main returns
      [] kind = "fatal" -> 255     \* sylog.Fatalf
      [] kind = "panic" -> 2       \* a Go runtime panic

\* the fixed runtime support section of the template, with {{.Prefix}} filled in
RuntimeSupport(p) == "// Code generated by go generate; runtime Prefix=" \o p

RECURSIVE Declarations(_, _)
\* {{ range $i, $d := .Defines }} {{$d.WriteLine -}} {{end}}
Declarations(defs, i) ==
    IF i > Len(defs) THEN <<>> ELSE <<WriteLine(defs[i])>> \o Declarations(defs, i + 1)

RenderedOnceOnly(p, defs) ==
    IF prevRun.done THEN <<RuntimeSupport(p)>>
    ELSE <<RuntimeSupport(p)>> \o Declarations(defs, 1)

\* what confgenTemplate.Execute writes for data, chunk by chunk
Rendered(p, defs) == <<RuntimeSupport(p)>> \o Declarations(defs, 1)

\* no earlier run of main
NoRun ==
    [done |-> FALSE, inFile |-> <<>>, tags |-> "", outFile |-> <<>>,
     exit |-> "running", err |-> "none"]

GenInit ==
    /\ prevRun = NoRun
    /\ gpc = "create"
    /\ created = FALSE
    /\ inFile = <<>>
    /\ lineNo = 0
    /\ header = <<>>
    /\ prefix = ""
    /\ env = [set |-> FALSE, val |-> ""]
    /\ outFile = <<>>
    /\ baked = ""
    /\ genExit = "running"
    /\ genErr = "none"

\* the process ends: by return from main, by sylog.Fatalf, or by a panic
Exit(kind, err) ==
    /\ gpc' = "exit"
    /\ genExit' = kind
    /\ genErr' = err

\* outFile, err := os.Create("config.go"): the file is created, or truncated
\* when it is there already
Create ==
    /\ gpc = "create"
    /\ \/ /\ created' = TRUE
          /\ outFile' = <<>>
          /\ gpc' = "read"
          /\ UNCHANGED <<genExit, genErr>>
       \/ /\ Exit("return", "create")
          /\ UNCHANGED <<created, outFile>>
    /\ UNCHANGED <<inFile, lineNo, header, prefix, env, baked>>
    /\ UNCHANGED <<prevRun, fnVars, rtVars>>

\* inFile, err := os.ReadFile(os.Args[1]), the file holding one of contents
ReadFileFrom(contents) ==
    /\ gpc = "read"
    /\ \/ /\ inFile' \in contents
          /\ gpc' = "scan"
          /\ UNCHANGED <<genExit, genErr>>
       \/ /\ Exit("return", "read")
          /\ UNCHANGED inFile
    /\ UNCHANGED <<created, lineNo, header, prefix, env, outFile, baked>>
    /\ UNCHANGED <<prevRun, fnVars, rtVars>>

ReadFile == ReadFileFrom(Inputs)

RecognizedAnyMarker(d) == Len(d.Words) > 2

\* len(d.Words) > 2 && d.Words[0] == "#define"
Recognized(d) == Len(d.Words) > 2 /\ d.Words[1] = "#define"

PrefixCountBadOff(d) == Len(d.Words) < 3

\* len(d.Words) != 3, the test on a PREFIX entry
PrefixCountBad(d) == Len(d.Words) # 3

\* one iteration of for s.Scan() { ... }
ScanLine ==
    /\ gpc = "scan"
    /\ lineNo < Len(inFile)
    /\ LET d == parseLine(inFile[lineNo + 1])
       IN  IF Recognized(d)
           THEN IF d.Words[2] = "PREFIX" /\ PrefixCountBad(d)
                THEN /\ Exit("fatal", "prefix-count")
                     /\ UNCHANGED <<lineNo, header, prefix>>
                ELSE /\ prefix' = IF d.Words[2] = "PREFIX" THEN d.Words[3] ELSE prefix
                     /\ header' = Append(header, d)
                     /\ lineNo' = lineNo + 1
                     /\ UNCHANGED <<gpc, genExit, genErr>>
           ELSE /\ lineNo' = lineNo + 1
                /\ UNCHANGED <<gpc, genExit, genErr, header, prefix>>
    /\ UNCHANGED <<created, inFile, env, outFile, baked>>
    /\ UNCHANGED <<prevRun, fnVars, rtVars>>

PrefixMissingNever(p) == FALSE

\* prefix == ""
PrefixMissing(p) == p = ""

\* the synthetic Define of the build-tag override
TagsDefine(tags) ==
    [Words |-> <<"#define", "GO_BUILD_TAGS", BackQuote \o tags \o BackQuote>>]

\* the end of the scan: the test of prefix, then the GO_BUILD_TAGS override
CheckPrefixAndTags ==
    /\ gpc = "scan"
    /\ lineNo = Len(inFile)
    /\ IF PrefixMissing(prefix)
       THEN /\ Exit("fatal", "prefix-missing")
            /\ UNCHANGED <<env, header>>
       ELSE /\ env' \in EnvValues
            /\ header' = IF Getenv(env') # ""
                         THEN Append(header, TagsDefine(Getenv(env')))
                         ELSE header
            /\ gpc' = "render"
            /\ UNCHANGED <<genExit, genErr>>
    /\ UNCHANGED <<created, inFile, lineNo, prefix, outFile, baked>>
    /\ UNCHANGED <<prevRun, fnVars, rtVars>>

\* prefix[1 : len(prefix)-1]
StripQuotes(p) == SubSeq(p, 2, Len(p) - 1)

\* data := struct{...}{prefix[1:len(prefix)-1], header}; confgenTemplate.Execute
Render ==
    /\ gpc = "render"
    /\ IF Len(prefix) < 2
       THEN \* slice bounds out of range [1:0]
            /\ Exit("panic", "slice")
            /\ UNCHANGED <<outFile, baked>>
       ELSE /\ baked' = StripQuotes(prefix)
            /\ \/ /\ outFile' = Rendered(baked', header)
                  /\ Exit("return", "none")
               \/ /\ \E k \in 0..(Len(Rendered(baked', header)) - 1) :
                        outFile' = SubSeq(Rendered(baked', header), 1, k)
                  /\ Exit("return", "render")
    /\ UNCHANGED <<created, inFile, lineNo, header, prefix, env>>
    /\ UNCHANGED <<prevRun, fnVars, rtVars>>

MaxRegenLines == 2

\* the lines of the input files generation is run twice on
RegenLines ==
    {"#define PREFIX \"/usr\"", "#define BINDIR \"/usr/bin\"", "#define PREFIX x"}

RegenInputs == {<<>>} \cup SeqsUpTo(RegenLines, MaxRegenLines)

ReadRegenFile == ReadFileFrom(RegenInputs)

\* main is run again, as a new process: nothing of the first run is left but
\* config.go as the first run left it
Rerun ==
    /\ gpc = "exit"
    /\ ~prevRun.done
    /\ prevRun' = [done |-> TRUE, inFile |-> inFile, tags |-> Getenv(env),
                   outFile |-> outFile, exit |-> genExit, err |-> genErr]
    /\ gpc' = "create"
    /\ created' = FALSE
    /\ inFile' = <<>>
    /\ lineNo' = 0
    /\ header' = <<>>
    /\ prefix' = ""
    /\ env' = [set |-> FALSE, val |-> ""]
    /\ baked' = ""
    /\ genExit' = "running"
    /\ genErr' = "none"
    /\ UNCHANGED outFile
    /\ UNCHANGED <<fnVars, rtVars>>

----------------------------------------------------------------------------
(* The generated runtime: getPrefix, isSuidInstall, relocatePath, called   *)
(* by the threads of one process.  A call is a frame on its thread's       *)
(* stack; a callee's return pops its frame and stores the result in the    *)
(* caller's frame.                                                         *)

NThreads == 2
MaxCalls == 2

Threads == 1..NThreads
NoThread == 0

\* the prefixes main can bake in: from "", "/", "/usr" and ".." between quotes
BuildPrefixes == {"", "/", "/usr", ".."}

\* what os.Executable may answer
ExeResults ==
    {[err |-> TRUE, path |-> ""],
     [err |-> FALSE, path |-> "/usr/bin/apptainer"],
     [err |-> FALSE, path |-> "/opt/app/bin/apptainer"],
     [err |-> FALSE, path |-> "/opt/app/libexec/apptainer/bin/starter"],
     [err |-> FALSE, path |-> "/opt/app/libexec/apptainer/bin/starter-suid"],
     [err |-> FALSE, path |-> "/opt/app/bin/python3"]}

\* the arguments relocatePath is called with: the paths a build with the
\* prefix is configured with, and paths next to and outside of the prefix
Originals ==
    IF buildPrefix = ".." THEN {"../bin", "..x"}
    ELSE {"/usr/bin", "/usrlocal/x", "/etc/apptainer/apptainer.conf",
          "/var/apptainer/mnt/session", "/home/x"}

StarterSuid == "/libexec/apptainer/bin/starter-suid"

\* os.Stat: the errors it may return, nil for none.  Nothing orders the file
\* system against the process: a starter-suid, or a symlink to one, may be
\* created, removed or hidden between any two steps, so each call may find
\* any of them, whatever an earlier call found
Stat(path) == {"nil", "ENOENT", "EACCES"}

Frame(fn, pc, orig, root) ==
    [fn |-> fn, pc |-> pc, orig |-> orig, root |-> root, prefix |-> "", suid |-> 0]

Top(t) == stacks[t][Len(stacks[t])]

At(t, fn, pc) ==
    /\ exited = "running"
    /\ stacks[t] # <<>>
    /\ Top(t).fn = fn
    /\ Top(t).pc = pc

\* the stack with its top frame changed to f
SetTop(st, f) == [st EXCEPT ![Len(st)] = f]

\* the stack after its top frame returned v into field fld of its caller
Return(st, fld, v) ==
    LET rest == SubSeq(st, 1, Len(st) - 1)
    IN  IF rest = <<>> THEN rest
        ELSE SetTop(rest, [rest[Len(rest)] EXCEPT ![fld] = v])

\* relocRet before any relocatePath call has returned
NoReturn == [orig |-> "", result |-> "", returned |-> FALSE]

cacheVars == <<prefixOnce, installPrefix, isSuidOnce, suidInstall>>
probeVars == <<exeProbes, exeErr, statLog, raced>>
retVars == <<prefixRet, suidRet, relocRet>>

RtInit ==
    /\ buildPrefix \in BuildPrefixes
    /\ prefixOnce = [done |-> FALSE, m |-> NoThread]
    /\ installPrefix = ""
    /\ isSuidOnce = [done |-> FALSE, m |-> NoThread]
    /\ suidInstall = 0
    /\ stacks = [t \in Threads |-> <<>>]
    /\ ncalls = 0
    /\ exited = "running"
    /\ fatalBy = [orig |-> "", why |-> "none"]
    /\ exeProbes = 0
    /\ exeErr = "none"
    /\ statLog = <<>>
    /\ raced = {}
    /\ prefixRet = <<>>
    /\ suidRet = <<>>
    /\ relocRet = NoReturn

RtIdle == RtInit /\ buildPrefix = "/usr"

\* another thread than t is in Do of the guard of fn, not yet past it
Waiting(t, fn) == \E u \in Threads \ {t} : At(u, fn, "do")

OnceNeverDone(o) == FALSE

\* o.done, as Do's fast path and doSlow read it
OnceDone(o) == o.done

LockAlways(o) == TRUE

LockNever(o) == FALSE

\* o.m.Lock() of doSlow can be taken
LockFree(o) == o.m = NoThread

\* a thread calls getPrefix()
CallGetPrefix(t) ==
    /\ exited = "running"
    /\ stacks[t] = <<>>
    /\ ncalls < MaxCalls
    /\ ncalls' = ncalls + 1
    /\ stacks' = [stacks EXCEPT ![t] = <<Frame("getPrefix", "do", "", FALSE)>>]
    /\ UNCHANGED <<buildPrefix, cacheVars, exited, fatalBy,
                   probeVars, retVars>>
    /\ UNCHANGED <<genVars, fnVars>>

\* prefixOnce.Do(f): return at once when done, else take the mutex and run f
PrefixDo(t) ==
    /\ At(t, "getPrefix", "do")
    /\ IF OnceDone(prefixOnce)
       THEN /\ stacks' = [stacks EXCEPT ![t] = SetTop(@, [Top(t) EXCEPT !.pc = "ret"])]
            /\ UNCHANGED prefixOnce
       ELSE /\ LockFree(prefixOnce)
            /\ prefixOnce' = [prefixOnce EXCEPT !.m = t]
            /\ stacks' = [stacks EXCEPT ![t] = SetTop(@, [Top(t) EXCEPT !.pc = "body"])]
    /\ UNCHANGED <<buildPrefix, installPrefix, isSuidOnce, suidInstall, ncalls, exited, fatalBy, probeVars, retVars>>
    /\ UNCHANGED <<genVars, fnVars>>

DiscoverNoFallback(r) ==
    IF r.err THEN ""
    ELSE LET bin == Dir(r.path)
             base == Base(r.path)
         IN  IF base = "apptainer" THEN Dir(bin)
             ELSE IF base \in {"starter", "starter-suid"} THEN Dir(Dir(Dir(bin)))
                  ELSE buildPrefix

DiscoverTwoUp(r) ==
    IF r.err THEN buildPrefix
    ELSE LET bin == Dir(r.path)
             base == Base(r.path)
         IN  IF base = "apptainer" THEN Dir(bin)
             ELSE IF base \in {"starter", "starter-suid"} THEN Dir(Dir(bin))
                  ELSE buildPrefix

\* the function given to prefixOnce.Do: installPrefix from os.Executable's answer
Discover(r) ==
    IF r.err THEN buildPrefix
    ELSE LET bin == Dir(r.path)
             base == Base(r.path)
         IN  IF base = "apptainer" THEN Dir(bin)
             ELSE IF base \in {"starter", "starter-suid"} THEN Dir(Dir(Dir(bin)))
                  ELSE buildPrefix

\* installation roots, the directories below them and the file names an
\* executable may have
ExeRoots == {"", "/usr", "/usr/local", "/opt/app"}
ExeSubdirs == {"", "/bin", "/sbin", "/libexec/apptainer/bin"}
ExeNames == {"apptainer", "starter", "starter-suid", "python3", "apptainer.bin", "Starter"}

\* what os.Executable may answer, over all of these
DiscoverExes ==
    {[err |-> TRUE, path |-> ""]}
    \cup {[err |-> FALSE, path |-> r \o s \o "/" \o n] :
             r \in ExeRoots, s \in ExeSubdirs, n \in ExeNames}

DiscoverInit == dexe \in DiscoverExes /\ dprefix = <<>>

\* the function given to prefixOnce.Do, applied to one answer of os.Executable
CallDiscover ==
    /\ dprefix = <<>>
    /\ dprefix' = <<Discover(dexe)>>
    /\ UNCHANGED <<wd, wline, dexe, genVars, rtVars>>

\* f of getPrefix runs under the mutex; Do then sets done and unlocks
PrefixBody(t) ==
    /\ At(t, "getPrefix", "body")
    /\ \E r \in ExeResults :
          /\ installPrefix' = Discover(r)
          /\ exeErr' = IF r.err THEN "err" ELSE "nil"
    /\ exeProbes' = exeProbes + 1
    /\ raced' = IF Waiting(t, "getPrefix") THEN raced \cup {"prefixOnce"} ELSE raced
    /\ prefixOnce' = [done |-> TRUE, m |-> NoThread]
    /\ stacks' = [stacks EXCEPT ![t] = SetTop(@, [Top(t) EXCEPT !.pc = "ret"])]
    /\ UNCHANGED <<buildPrefix, isSuidOnce, suidInstall, ncalls,
                   exited, fatalBy, statLog, retVars>>
    /\ UNCHANGED <<genVars, fnVars>>

\* return installPrefix
PrefixReturn(t) ==
    /\ At(t, "getPrefix", "ret")
    /\ prefixRet' = Append(prefixRet, installPrefix)
    /\ stacks' = [stacks EXCEPT ![t] = Return(@, "prefix", installPrefix)]
    /\ UNCHANGED <<buildPrefix, cacheVars, ncalls, exited, fatalBy,
                   probeVars, suidRet, relocRet>>
    /\ UNCHANGED <<genVars, fnVars>>

\* a thread calls isSuidInstall()
CallIsSuidInstall(t) ==
    /\ exited = "running"
    /\ stacks[t] = <<>>
    /\ ncalls < MaxCalls
    /\ ncalls' = ncalls + 1
    /\ stacks' = [stacks EXCEPT ![t] = <<Frame("isSuidInstall", "do", "", FALSE)>>]
    /\ UNCHANGED <<buildPrefix, cacheVars, exited, fatalBy,
                   probeVars, retVars>>
    /\ UNCHANGED <<genVars, fnVars>>

\* isSuidOnce.Do(f): return at once when done, else take the mutex and start
\* f, whose first statement is prefix := getPrefix()
SuidDo(t) ==
    /\ At(t, "isSuidInstall", "do")
    /\ IF OnceDone(isSuidOnce)
       THEN /\ stacks' = [stacks EXCEPT ![t] = SetTop(@, [Top(t) EXCEPT !.pc = "ret"])]
            /\ UNCHANGED isSuidOnce
       ELSE /\ LockFree(isSuidOnce)
            /\ isSuidOnce' = [isSuidOnce EXCEPT !.m = t]
            /\ stacks' = [stacks EXCEPT ![t] =
                    Append(SetTop(@, [Top(t) EXCEPT !.pc = "stat"]),
                           Frame("getPrefix", "do", "", FALSE))]
    /\ UNCHANGED <<buildPrefix, prefixOnce, installPrefix, suidInstall, ncalls, exited, fatalBy, probeVars, retVars>>
    /\ UNCHANGED <<genVars, fnVars>>

StatPathOfBuild(p) == buildPrefix \o StarterSuid

\* path := prefix + "/libexec/apptainer/bin/starter-suid"
StatPath(p) == p \o StarterSuid

FlagOfNotFound(err) == IF err = "ENOENT" THEN 0 ELSE 1

\* if err == nil { suidInstall = 1 }
FlagOf(err) == IF err = "nil" THEN 1 ELSE 0

\* the rest of f of isSuidInstall: os.Stat and the flag; Do then sets done and
\* unlocks
SuidStat(t) ==
    /\ At(t, "isSuidInstall", "stat")
    /\ LET path == StatPath(Top(t).prefix)
       IN  \E err \in Stat(path) :
              /\ statLog' = Append(statLog, [path |-> path, err |-> err])
              /\ suidInstall' = IF FlagOf(err) = 1 THEN 1 ELSE suidInstall
    /\ raced' = IF Waiting(t, "isSuidInstall") THEN raced \cup {"isSuidOnce"} ELSE raced
    /\ isSuidOnce' = [done |-> TRUE, m |-> NoThread]
    /\ stacks' = [stacks EXCEPT ![t] = SetTop(@, [Top(t) EXCEPT !.pc = "ret"])]
    /\ UNCHANGED <<buildPrefix, prefixOnce, installPrefix, ncalls,
                   exited, fatalBy, exeProbes, exeErr, retVars>>
    /\ UNCHANGED <<genVars, fnVars>>

\* return suidInstall
SuidReturn(t) ==
    /\ At(t, "isSuidInstall", "ret")
    /\ suidRet' = Append(suidRet, suidInstall)
    /\ stacks' = [stacks EXCEPT ![t] = Return(@, "suid", suidInstall)]
    /\ UNCHANGED <<buildPrefix, cacheVars, ncalls, exited, fatalBy,
                   probeVars, prefixRet, relocRet>>
    /\ UNCHANGED <<genVars, fnVars>>

\* "{{.Prefix}}" == "" || "{{.Prefix}}" == "/"
NoRelocationDomain == buildPrefix = "" \/ buildPrefix = "/"

RootRelativeAlways(original) == TRUE

\* strings.HasPrefix(original, "/etc/apptainer") || ... "/var/apptainer"
RootRelative(original) ==
    HasPrefix(original, "/etc/apptainer") \/ HasPrefix(original, "/var/apptainer")

\* a thread calls relocatePath(original): the two early returns, or the call
\* of getPrefix()
CallRelocatePath(t, original) ==
    /\ exited = "running"
    /\ stacks[t] = <<>>
    /\ ncalls < MaxCalls
    /\ ncalls' = ncalls + 1
    /\ IF NoRelocationDomain
          \/ (~HasPrefix(original, buildPrefix) /\ ~RootRelative(original))
       THEN /\ relocRet' = [orig |-> original, result |-> original, returned |-> TRUE]
            /\ UNCHANGED stacks
       ELSE /\ stacks' = [stacks EXCEPT ![t] =
                    <<Frame("relocatePath", "prefix", original,
                            ~HasPrefix(original, buildPrefix)),
                      Frame("getPrefix", "do", "", FALSE)>>]
            /\ UNCHANGED relocRet
    /\ UNCHANGED <<buildPrefix, cacheVars, exited, fatalBy,
                   probeVars, prefixRet, suidRet>>
    /\ UNCHANGED <<genVars, fnVars>>

IsBuildPrefixNever(p) == FALSE

\* prefix == "{{.Prefix}}"
IsBuildPrefix(p) == p = buildPrefix

\* if prefix == "{{.Prefix}}" { return original }, else the call of
\* isSuidInstall()
RelocateHavePrefix(t) ==
    /\ At(t, "relocatePath", "prefix")
    /\ IF IsBuildPrefix(Top(t).prefix)
       THEN /\ relocRet' = [orig |-> Top(t).orig, result |-> Top(t).orig,
                            returned |-> TRUE]
            /\ stacks' = [stacks EXCEPT ![t] = <<>>]
       ELSE /\ stacks' = [stacks EXCEPT ![t] =
                    Append(SetTop(@, [Top(t) EXCEPT !.pc = "gate"]),
                           Frame("isSuidInstall", "do", "", FALSE))]
            /\ UNCHANGED relocRet
    /\ UNCHANGED <<buildPrefix, cacheVars, ncalls, exited, fatalBy,
                   probeVars, prefixRet, suidRet>>
    /\ UNCHANGED <<genVars, fnVars>>

GateOpen(flag) == FALSE

RelBaseAlwaysRoot(rootPrefix) == "/"

\* the base filepath.Rel is given: "/" under rootPrefix, else "{{.Prefix}}"
RelBase(rootPrefix) == IF rootPrefix THEN "/" ELSE buildPrefix

\* isSuidInstall() == 1
GateShut(flag) == flag = 1

\* the security gate, then filepath.Rel and filepath.Join
RelocateGate(t) ==
    /\ At(t, "relocatePath", "gate")
    /\ LET f == Top(t)
           rel == Rel(RelBase(f.root), f.orig)
       IN  IF GateShut(f.suid)
           THEN /\ exited' = "fatal"
                /\ fatalBy' = [orig |-> f.orig, why |-> "starter-suid"]
                /\ UNCHANGED <<stacks, relocRet>>
           ELSE IF rel.err
                THEN /\ exited' = "fatal"
                     /\ fatalBy' = [orig |-> f.orig, why |-> "rel"]
                     /\ UNCHANGED <<stacks, relocRet>>
                ELSE /\ relocRet' = [orig |-> f.orig, returned |-> TRUE,
                                  result |-> Join(f.prefix, rel.path)]
                     /\ stacks' = [stacks EXCEPT ![t] = <<>>]
                     /\ UNCHANGED <<exited, fatalBy>>
    /\ UNCHANGED <<buildPrefix, cacheVars, ncalls, probeVars,
                   prefixRet, suidRet>>
    /\ UNCHANGED <<genVars, fnVars>>

----------------------------------------------------------------------------
(* Specifications                                                          *)

\* the generator: one run of main
InitGen == GenInit /\ WLIdle /\ RtIdle
NextGen == Create \/ ReadFile \/ ScanLine \/ CheckPrefixAndTags \/ Render
SpecGen == InitGen /\ [][NextGen]_vars

\* the generator run twice
InitRegen == GenInit /\ WLIdle /\ RtIdle
NextRegen ==
    Create \/ ReadRegenFile \/ ScanLine \/ CheckPrefixAndTags \/ Render \/ Rerun
SpecRegen == InitRegen /\ [][NextRegen]_vars

\* Define.WriteLine applied once to each Define of WLDefines
InitWriteLine == WLInit /\ GenInit /\ RtIdle
NextWriteLine == CallWriteLine
SpecWriteLine == InitWriteLine /\ [][NextWriteLine]_vars

\* the prefix discovery applied once to each answer of DiscoverExes, for each
\* build-time prefix
InitDiscover ==
    /\ DiscoverInit
    /\ wd = [Words |-> <<"#define", "FOO", "1">>] /\ wline = ""
    /\ GenInit
    /\ RtInit
NextDiscover == CallDiscover
SpecDiscover == InitDiscover /\ [][NextDiscover]_vars

\* the generated runtime under concurrent callers
InitRuntime == RtInit /\ GenInit /\ WLIdle
NextRuntime ==
    \/ \E t \in Threads : CallGetPrefix(t)
    \/ \E t \in Threads : PrefixDo(t)
    \/ \E t \in Threads : PrefixBody(t)
    \/ \E t \in Threads : PrefixReturn(t)
    \/ \E t \in Threads : CallIsSuidInstall(t)
    \/ \E t \in Threads : SuidDo(t)
    \/ \E t \in Threads : SuidStat(t)
    \/ \E t \in Threads : SuidReturn(t)
    \/ \E t \in Threads, original \in Originals : CallRelocatePath(t, original)
    \/ \E t \in Threads : RelocateHavePrefix(t)
    \/ \E t \in Threads : RelocateGate(t)
SpecRuntime == InitRuntime /\ [][NextRuntime]_vars

\* a step of thread t inside a call it has started, up to the security gate
ThreadStep(t) ==
    \/ PrefixDo(t) \/ PrefixBody(t) \/ PrefixReturn(t)
    \/ SuidDo(t) \/ SuidStat(t) \/ SuidReturn(t)
    \/ RelocateHavePrefix(t)

\* weak fairness of RelocateGate(t), which a thread can take exactly when it
\* is at the gate: a thread does not stay at the gate for ever
GateFair(t) ==
    \/ []<>(~At(t, "relocatePath", "gate"))
    \/ []<><<RelocateGate(t)>>_vars

\* the scheduler lets every thread that can take a step take one in the end,
\* and a mutex that is unlocked is given to a thread waiting for it: a thread
\* waiting in Do can step again from the moment the holder has set done
FairRuntime == \A t \in Threads : WF_vars(ThreadStep(t)) /\ GateFair(t)

\* the arguments of relocatePath that tell its ways through the once-guards
\* apart: one of the relocation domain and one outside of it
ProgressOriginals == {"/usr/bin", "/home/x"}

\* the generated runtime under concurrent callers and a fair scheduler, for
\* the build-time prefix /usr
InitProgress == InitRuntime /\ buildPrefix = "/usr"
NextProgress ==
    \/ \E t \in Threads : CallGetPrefix(t)
    \/ \E t \in Threads : PrefixDo(t)
    \/ \E t \in Threads : PrefixBody(t)
    \/ \E t \in Threads : PrefixReturn(t)
    \/ \E t \in Threads : CallIsSuidInstall(t)
    \/ \E t \in Threads : SuidDo(t)
    \/ \E t \in Threads : SuidStat(t)
    \/ \E t \in Threads : SuidReturn(t)
    \/ \E t \in Threads, original \in ProgressOriginals : CallRelocatePath(t, original)
    \/ \E t \in Threads : RelocateHavePrefix(t)
    \/ \E t \in Threads : RelocateGate(t)
SpecRuntimeFair == InitProgress /\ [][NextProgress]_vars /\ FairRuntime

----------------------------------------------------------------------------
(* Properties of the generated runtime, under SpecRuntime                  *)

\* original is inside the relocation domain of relocatePath
InDomain(original) ==
    \/ HasPrefix(original, buildPrefix)
    \/ HasPrefix(original, "/etc/apptainer")
    \/ HasPrefix(original, "/var/apptainer")

\* C1: with a build-time prefix that is neither "" nor "/", once suid
\* detection has reported 1 and prefix discovery a prefix other than the
\* build-time one, no relocatePath call with an original inside the
\* relocation domain has returned anything, neither a relocated path nor the
\* original; the only calls that got that far ended the process.
C1_SuidGateIsFatal ==
    (/\ buildPrefix \notin {"", "/"}
     /\ isSuidOnce.done /\ suidInstall = 1
     /\ prefixOnce.done /\ installPrefix # buildPrefix)
    => /\ ~(relocRet.returned /\ InDomain(relocRet.orig))
       /\ exited = "fatal" => fatalBy.why = "starter-suid"

C1_Witness ==
    /\ exited = "fatal"
    /\ fatalBy.why = "starter-suid"
    /\ InDomain(fatalBy.orig)
    /\ buildPrefix = "/usr"
    /\ suidInstall = 1
    /\ installPrefix = "/opt/app"
    /\ \E t \in Threads : stacks[t] # <<>> /\ stacks[t][1].orig = fatalBy.orig

\* C2: every value isSuidInstall() has returned is the flag cached now, and
\* every value getPrefix() has returned is the prefix cached now: a call that
\* comes after the first returns what the first returned, whatever os.Stat
\* would find by then, and a cache that has answered is done for good.
C2_CachedForGood ==
    /\ \A i \in 1..Len(suidRet) : suidRet[i] = suidInstall /\ suidRet[i] = suidRet[1]
    /\ \A i \in 1..Len(prefixRet) : prefixRet[i] = installPrefix /\ prefixRet[i] = prefixRet[1]
    /\ suidRet # <<>> => isSuidOnce.done
    /\ prefixRet # <<>> => prefixOnce.done

C2_Witness ==
    /\ Len(suidRet) = 2
    /\ Len(prefixRet) = 1
    /\ raced = {}
    /\ suidRet[2] = 0
    /\ statLog[1].err = "ENOENT"
    /\ \A t \in Threads : stacks[t] = <<>>

\* C3: however getPrefix() calls interleave, os.Executable is called at most
\* once, exactly once before any call returns, and every call returns the
\* prefix that one computation stored, after the computation has finished.
C3_OneExecutableProbe ==
    /\ exeProbes <= 1
    /\ prefixOnce.done <=> exeProbes = 1
    /\ prefixRet # <<>> => exeProbes = 1
    /\ \A i \in 1..Len(prefixRet) : prefixRet[i] = installPrefix
    /\ \A t \in Threads : At(t, "getPrefix", "ret") => prefixOnce.done

C3_Witness ==
    /\ "prefixOnce" \in raced
    /\ Len(prefixRet) = 2
    /\ exeProbes = 1
    /\ prefixRet[1] = "/opt/app"
    /\ suidRet = <<>>

\* C4: however isSuidInstall() calls interleave, directly or from
\* relocatePath, os.Stat is called at most once, exactly once before any call
\* returns, with the path built from the one cached prefix of getPrefix(), and
\* every call returns the flag that one call set.
C4_OneStatProbe ==
    /\ Len(statLog) <= 1
    /\ isSuidOnce.done <=> Len(statLog) = 1
    /\ suidRet # <<>> => Len(statLog) = 1
    /\ \A i \in 1..Len(statLog) :
          /\ prefixOnce.done
          /\ statLog[i].path = installPrefix \o "/libexec/apptainer/bin/starter-suid"
    /\ \A i \in 1..Len(suidRet) :
          suidRet[i] = IF statLog[1].err = "nil" THEN 1 ELSE 0

C4_Witness ==
    /\ "isSuidOnce" \in raced
    /\ Len(suidRet) = 2
    /\ Len(statLog) = 1
    /\ suidRet[1] = 1
    /\ installPrefix = "/opt/app"
    /\ buildPrefix = "/usr"

----------------------------------------------------------------------------
(* Properties of the generator, under SpecGen                              *)

\* os.ReadFile has returned the input
InputRead == gpc \in {"scan", "render"} \/ (gpc = "exit" /\ genErr \notin {"create", "read"})

\* line is "#define PREFIX" followed by n value tokens, for some n in ns
PrefixLine(line, ns) ==
    \E w \in {Fields(line)} :
        /\ Len(w) >= 2
        /\ w[1] = "#define"
        /\ w[2] = "PREFIX"
        /\ Len(w) - 2 \in ns

\* the positions in lines of the "#define PREFIX" lines with n value tokens, n in ns
PrefixLines(lines, ns) == {i \in 1..Len(lines) : PrefixLine(lines[i], ns)}

OneOrMore == Nat \ {0}
TwoOrMore == Nat \ {0, 1}

\* main has ended by sylog.Fatalf, or will, and never renders
FailsFatally ==
    /\ gpc # "render"
    /\ outFile = <<>>
    /\ gpc = "exit" => genExit = "fatal"

\* main has returned after a complete rendering
Succeeded == gpc = "exit" /\ genExit = "return" /\ genErr = "none"

\* C5: for an input without a recognized PREFIX entry, main ends by
\* sylog.Fatalf once all lines are scanned, and nothing of the module, neither
\* the runtime support section nor a declaration, is written to config.go.
C5_NoPrefixIsFatal ==
    (InputRead /\ PrefixLines(inFile, OneOrMore) = {})
    => /\ FailsFatally
       /\ gpc = "exit" => genErr = "prefix-missing" /\ lineNo = Len(inFile)

C5_Witness ==
    /\ gpc = "exit"
    /\ genExit = "fatal"
    /\ InputRead
    /\ PrefixLines(inFile, OneOrMore) = {}
    /\ PrefixLines(inFile, {0}) # {}
    /\ Len(header) = 2
    /\ lineNo = 3

Quoted(tok) ==
    /\ Len(tok) >= 2
    /\ SubSeq(tok, 1, 1) = "\""
    /\ SubSeq(tok, Len(tok), Len(tok)) = "\""

\* C7, as claimed: when generation completes without a fatal error the input
\* had exactly one recognized PREFIX entry, its one value token was between
\* quotes, and the prefix baked in is that token without them; an input with a
\* second PREFIX entry, an unquoted token or a token too short for two
\* delimiters ends in a fatal configuration error.
C7_AsClaimed ==
    LET entries == PrefixLines(inFile, OneOrMore)
        WellFormed ==
            /\ Cardinality(entries) = 1
            /\ \A i \in entries :
                  /\ PrefixLine(inFile[i], {1})
                  /\ Quoted(Fields(inFile[i])[3])
    IN  /\ Succeeded
           => /\ WellFormed
              /\ \A i \in entries : Fields(inFile[i])[3] = "\"" \o baked \o "\""
        /\ (InputRead /\ gpc = "exit" /\ ~WellFormed) => genExit = "fatal"

\* C8, as claimed: whichever error condition main has hit, the process ends
\* with a non-zero exit status.
C8_AsClaimed ==
    (gpc = "exit" /\ genErr # "none") => ExitStatus(genExit) # 0

RECURSIVE ExpectedDeclarations(_)
\* one declaration for each line whose first token is #define and which has
\* three tokens or more, in the order of the lines
ExpectedDeclarations(lines) ==
    IF lines = <<>> THEN <<>>
    ELSE LET w == Fields(Head(lines))
         IN  (IF Len(w) >= 3 /\ w[1] = "#define" THEN <<WriteLine([Words |-> w])>> ELSE <<>>)
             \o ExpectedDeclarations(Tail(lines))

\* the GO_BUILD_TAGS declaration, present when the variable is set and not empty
ExpectedTags ==
    IF env.set /\ env.val # ""
    THEN <<"const GO_BUILD_TAGS = " \o BackQuote \o env.val \o BackQuote>>
    ELSE <<>>

\* the declarations of the output: all of it but the runtime support section
OutDeclarations == SubSeq(outFile, 2, Len(outFile))

----------------------------------------------------------------------------
(* Properties of Define.WriteLine, under SpecWriteLine                     *)

RECURSIVE PlusJoined(_)
\* the tokens with " + " between them
PlusJoined(toks) ==
    IF Len(toks) = 1 THEN toks[1]
    ELSE PlusJoined(SubSeq(toks, 1, Len(toks) - 1)) \o " + " \o toks[Len(toks)]

\* C10: an entry named BINDIR, LIBEXECDIR, SYSCONFDIR, SESSIONDIR,
\* APPTAINER_CONFDIR or PLUGIN_ROOTDIR is rendered as var NAME =
\* relocatePath(<its value tokens joined by " + ">), and an entry named
\* APPTAINER_SUID_INSTALL as var APPTAINER_SUID_INSTALL = isSuidInstall()
\* whatever its value tokens are, also when they hold the text
\* APPTAINER_CONFDIR; none of the seven is rendered as const.
C10_RelocatableAreVars ==
    wline # "" =>
        LET name == wd.Words[2]
            toks == SubSeq(wd.Words, 3, Len(wd.Words))
        IN  /\ name \in {"BINDIR", "LIBEXECDIR", "SYSCONFDIR", "SESSIONDIR",
                         "APPTAINER_CONFDIR", "PLUGIN_ROOTDIR"}
                  => wline = "var " \o name \o " = relocatePath(" \o PlusJoined(toks) \o ")"
            /\ name = "APPTAINER_SUID_INSTALL"
                  => wline = "var APPTAINER_SUID_INSTALL = isSuidInstall()"

C10_Witness ==
    /\ wd.Words[2] = "PLUGIN_ROOTDIR"
    /\ Len(wd.Words) = 4
    /\ wd.Words[3] = "APPTAINER_CONFDIR"
    /\ wline = "var PLUGIN_ROOTDIR = relocatePath(APPTAINER_CONFDIR + \"/usr\")"

\* C11: an entry whose name is none of the six relocatable names and not
\* APPTAINER_SUID_INSTALL is rendered as var NAME = <expr> when <expr>, its
\* value tokens joined by " + ", holds the text APPTAINER_CONFDIR anywhere, and
\* as const NAME = <expr> when it does not; <expr> is never inside
\* relocatePath(...).
C11_OtherNamesByValue ==
    (wline # "" /\ wd.Words[2] \notin RelocatableNames \cup {"APPTAINER_SUID_INSTALL"})
    => LET name == wd.Words[2]
           expr == PlusJoined(SubSeq(wd.Words, 3, Len(wd.Words)))
           marked == \E i \in 1..Len(expr) :
                        /\ i + 16 <= Len(expr)
                        /\ SubSeq(expr, i, i + 16) = "APPTAINER_CONFDIR"
       IN  /\ wline = (IF marked THEN "var " ELSE "const ") \o name \o " = " \o expr
           /\ ~Contains(wline, "relocatePath(")

C11_Witness ==
    /\ wd.Words = <<"#define", "FOO", "\"/usr/local\"", "XAPPTAINER_CONFDIR/y">>
    /\ wline = "var FOO = \"/usr/local\" + XAPPTAINER_CONFDIR/y"

----------------------------------------------------------------------------
(* Properties of two runs of the generator, under SpecRegen                *)

\* a run that ended without an error of the file system: config.go was
\* created, the input read, and every write of the rendering went through
NoIoError(err) == err \notin {"create", "read", "render"}

----------------------------------------------------------------------------
(* Further properties of the generated runtime, under SpecRuntime          *)

\* the relocatePath calls in progress that are past the comparison of the
\* discovered prefix with the build-time one: at the security gate, or in the
\* isSuidInstall() call made for it
PastPrefixTest ==
    {t \in Threads : stacks[t] # <<>> /\ stacks[t][1].fn = "relocatePath"
                                      /\ stacks[t][1].pc = "gate"}

\* every relocatePath call that has returned so far returned its argument
ReturnedOriginal == relocRet.returned => relocRet.result = relocRet.orig

\* C13: once getPrefix() has discovered the build-time prefix itself, every
\* relocatePath call returns its argument, whatever the argument and whatever
\* the suid flag is: no call goes on to the security gate or calls
\* isSuidInstall(), and none ends the process.
C13_SamePrefixReturnsOriginal ==
    (prefixOnce.done /\ installPrefix = buildPrefix)
    => /\ ReturnedOriginal
       /\ PastPrefixTest = {}
       /\ exited = "running"

C13_Witness ==
    /\ buildPrefix = "/usr"
    /\ exeErr = "nil"
    /\ installPrefix = "/usr"
    /\ suidInstall = 1
    /\ relocRet.returned
    /\ relocRet.orig = "/etc/apptainer/apptainer.conf"
    /\ relocRet.result = "/etc/apptainer/apptainer.conf"
    /\ \A t \in Threads : stacks[t] = <<>>

\* C16: when os.Executable has failed, the prefix cached and returned by
\* getPrefix() is the build-time one and the process goes on; from then on
\* every relocatePath call returns its argument and none ends the process,
\* whether os.Stat finds a starter-suid or not.
C16_ExecutableErrorFallsBack ==
    exeErr = "err"
    => /\ prefixOnce.done
       /\ installPrefix = buildPrefix
       /\ \A i \in 1..Len(prefixRet) : prefixRet[i] = buildPrefix
       /\ ReturnedOriginal
       /\ PastPrefixTest = {}
       /\ exited = "running"

C16_Witness ==
    /\ exeErr = "err"
    /\ buildPrefix = "/usr"
    /\ Len(statLog) = 1
    /\ statLog[1].err = "nil"
    /\ suidInstall = 1
    /\ relocRet.returned
    /\ relocRet.orig = "/usr/bin"
    /\ relocRet.result = "/usr/bin"

\* C17: the cached suid flag is 1 exactly when the one os.Stat call returned
\* no error; not found, permission denied and every other error give 0, and
\* none of them ends the process: the process is only ever ended by
\* relocatePath, at its gate with the flag 1 or for a failed filepath.Rel.
C17_FlagIffStatSucceeded ==
    /\ suidInstall \in {0, 1}
    /\ ~isSuidOnce.done => suidInstall = 0
    /\ isSuidOnce.done
          => /\ Len(statLog) = 1
             /\ suidInstall = 1 <=> statLog[1].err = "nil"
    /\ \A i \in 1..Len(suidRet) : suidRet[i] = 1 <=> statLog[1].err = "nil"
    /\ exited = "fatal"
          => \/ fatalBy.why = "starter-suid" /\ statLog[1].err = "nil"
             \/ fatalBy.why = "rel"

C17_Witness ==
    /\ Len(statLog) = 1
    /\ statLog[1].err = "EACCES"
    /\ suidRet = <<0>>
    /\ exited = "running"
    /\ relocRet.returned
    /\ relocRet.result # relocRet.orig

\* C18: a relocatePath call that returns at its first test (the build-time
\* prefix is "" or "/") or at its second (the argument starts with none of the
\* build-time prefix, /etc/apptainer and /var/apptainer) returns its argument
\* in that one step, and the step changes neither cache, makes no
\* os.Executable or os.Stat call, and calls neither getPrefix() nor
\* isSuidInstall().
C18_EarlyReturnTouchesNothing ==
    [][\A t \in Threads, original \in Originals :
          (/\ CallRelocatePath(t, original)
           /\ \/ buildPrefix \in {"", "/"}
              \/ ~InDomain(original))
          => /\ relocRet' = [orig |-> original, result |-> original, returned |-> TRUE]
             /\ stacks' = stacks
             /\ UNCHANGED <<prefixOnce, installPrefix, isSuidOnce, suidInstall>>
             /\ UNCHANGED <<exeProbes, exeErr, statLog, exited>>]_vars

C18_Witness ==
    /\ buildPrefix = "/usr"
    /\ relocRet.returned
    /\ relocRet.orig = "/home/x"
    /\ relocRet.result = "/home/x"
    /\ ncalls = 2
    /\ ~prefixOnce.done
    /\ ~isSuidOnce.done
    /\ exeProbes = 0
    /\ statLog = <<>>

\* the path relocatePath is to return for an argument of the relocation
\* domain: the discovered prefix joined with the argument made relative to the
\* build-time prefix when it starts with it, and to the root when it does not
RelativeTo(original) ==
    IF HasPrefix(original, buildPrefix) THEN Rel(buildPrefix, original)
    ELSE Rel("/", original)

\* suid detection has reported 0 and prefix discovery a prefix other than the
\* build-time one, which is neither "" nor "/"
RelocatingInstall ==
    /\ buildPrefix \notin {"", "/"}
    /\ prefixOnce.done /\ installPrefix # buildPrefix
    /\ isSuidOnce.done /\ suidInstall = 0

\* C14, as claimed: with the flag 0 and a discovered prefix other than the
\* build-time one, every relocatePath call with an argument of the relocation
\* domain returns, and returns the discovered prefix joined with the argument
\* made relative to the build-time prefix, or to the root for an argument that
\* starts with /etc/apptainer or /var/apptainer and not with the prefix.
C14_AsClaimed ==
    RelocatingInstall
    => /\ exited = "running"
       /\ (relocRet.returned /\ InDomain(relocRet.orig))
             => relocRet.result = Join(installPrefix, RelativeTo(relocRet.orig).path)

\* C14, amended: with the flag 0 and a discovered prefix other than the
\* build-time one, a relocatePath call with an argument of the relocation
\* domain returns the discovered prefix joined with the argument made
\* relative to the build-time prefix, or to the root for an argument that
\* starts with /etc/apptainer or /var/apptainer and not with the prefix,
\* unless filepath.Rel cannot make the argument relative, and then the call
\* ends the process; filepath.Rel always can when the build-time prefix is a
\* rooted path.
C14_RelocatedUnlessRelFails ==
    RelocatingInstall
    => /\ (relocRet.returned /\ InDomain(relocRet.orig))
             => /\ ~RelativeTo(relocRet.orig).err
                /\ relocRet.result = Join(installPrefix, RelativeTo(relocRet.orig).path)
       /\ exited = "fatal"
             => /\ fatalBy.why = "rel"
                /\ InDomain(fatalBy.orig)
                /\ RelativeTo(fatalBy.orig).err
                /\ ~IsRooted(buildPrefix)

C14_Witness ==
    /\ RelocatingInstall
    /\ buildPrefix = "/usr"
    /\ installPrefix = "/opt/app"
    /\ relocRet.returned
    /\ relocRet.orig = "/etc/apptainer/apptainer.conf"
    /\ relocRet.result = "/opt/app/etc/apptainer/apptainer.conf"
    /\ \E t \in Threads :
          /\ At(t, "relocatePath", "gate")
          /\ Top(t).orig = "/usr/bin"
          /\ Top(t).root = FALSE

\* dir is path or a directory above it, component by component
Inside(dir, path) ==
    LET d == Elements(dir)
        q == Elements(path)
    IN  /\ IsRooted(dir) = IsRooted(path)
        /\ Len(d) <= Len(q)
        /\ SubSeq(q, 1, Len(d)) = d

\* C19, as claimed: a path relocatePath returns that is not its argument is
\* the discovered prefix or lies below it.
C19_AsClaimed ==
    (relocRet.returned /\ relocRet.result # relocRet.orig)
    => Inside(installPrefix, relocRet.result)

----------------------------------------------------------------------------
(* Properties of the prefix discovery, under SpecDiscover                  *)

\* the directory P as a prefix: the root when P is empty
AsPrefix(P) == IF P = "" THEN "/" ELSE P

\* C15: for an executable <P>/bin/apptainer the discovered prefix is <P>, for
\* <P>/libexec/apptainer/bin/starter and <P>/libexec/apptainer/bin/starter-suid
\* it is <P>, and for an executable of any other file name it is the
\* build-time prefix, in whichever directory the executable is.
C15_PrefixByFileName ==
    (dprefix # <<>> /\ ~dexe.err)
    => /\ \A P \in ExeRoots :
             /\ dexe.path = P \o "/bin/apptainer" => dprefix[1] = AsPrefix(P)
             /\ dexe.path = P \o "/libexec/apptainer/bin/starter"
                   => dprefix[1] = AsPrefix(P)
             /\ dexe.path = P \o "/libexec/apptainer/bin/starter-suid"
                   => dprefix[1] = AsPrefix(P)
       /\ \A r \in ExeRoots, sub \in ExeSubdirs,
             n \in ExeNames \ {"apptainer", "starter", "starter-suid"} :
             dexe.path = r \o sub \o "/" \o n => dprefix[1] = buildPrefix

C15_Witness ==
    /\ buildPrefix = "/usr"
    /\ dexe.path = "/usr/local/libexec/apptainer/bin/starter-suid"
    /\ dprefix = <<"/usr/local">>

----------------------------------------------------------------------------
(* Progress of the generated runtime, under SpecRuntimeFair                *)

\* C20: however calls of getPrefix(), isSuidInstall() and relocatePath()
\* interleave, isSuidInstall() calling getPrefix() while it holds its own
\* once-guard, every call a thread has started returns in the end or the
\* process is ended by sylog.Fatalf: no thread waits for a once-guard for
\* ever.
C20_EveryCallEnds ==
    \A t \in Threads :
        (stacks[t] # <<>>) ~> (stacks[t] = <<>> \/ exited = "fatal")

C20_Witness ==
    \E t \in Threads, u \in Threads :
        /\ t # u
        /\ isSuidOnce.m = t
        /\ At(t, "getPrefix", "do")
        /\ Len(stacks[t]) = 2
        /\ prefixOnce.m = u
        /\ At(u, "getPrefix", "body")

====
